---- MODULE Spec2Model ----
(***************************************************************************)
(* Model of the multi-model routing and fallback engine of Uranus-AI       *)
(* (ai-backend/app/services/multi_model_service.py) together with the      *)
(* static model table (ai-backend/app/models/ai_models.py).                 *)
(*                                                                         *)
(* Concurrency: every generate_response call is an asyncio task.  A task   *)
(* runs without interruption between two network awaits, so one action of  *)
(* the model is the code executed from one suspension point to the next.   *)
(*                                                                         *)
(* Specifications: Spec (concurrent generate_response calls), LiveSpec     *)
(* (Spec with the passage of time guaranteed), StreamSpec (one streaming   *)
(* call of /generate/stream, from the upstream to the consumer),           *)
(* RegistrySpec (the registry queries, as functions of the table and the   *)
(* client set), TrackerSpec (the usage statistics, the dictionaries        *)
(* get_usage_stats hands out and get_available_models), AdapterSpec (one   *)
(* run of _call_model or _stream_model: the upstream call an adapter makes *)
(* and the response it builds), WsSpec (one connection of the /ws          *)
(* endpoint of ai-backend/app/api/websocket_routes.py, with its client)    *)
(* and StartupSpec (the construction of the service from a settings        *)
(* object of ai-backend/app/config.py).                                    *)
(*                                                                         *)
(* Numbers: cost_per_1k_tokens is kept in units of 0.00001 USD, total_cost *)
(* in units of 0.00000001 USD (tokens * cost_per_1k_tokens, the division   *)
(* by 1000 being the unit), avg_response_time as an exact fraction         *)
(* <<numerator, denominator>> in lowest terms.                             *)
(***************************************************************************)
EXTENDS Integers, Sequences, FiniteSets, TLC

\* ---------------------------------------------------------------- bounds
MaxTime == 1
MaxCalls == 2

\* The asyncio tasks that run generate_response concurrently.
Tasks == {1, 2}

\* ------------------------------------------------------- the model table
Providers ==
  {"openai", "anthropic", "google", "xai", "deepseek", "ollama",
   "azure_openai", "cohere", "mistral"}

\* One row of AVAILABLE_MODELS: the dictionary key, then the ModelInfo fields.
Row(k, i, p, mt, cl, caps, c) ==
  [key |-> k, id |-> i, provider |-> p, max_tokens |-> mt,
   context_length |-> cl, capabilities |-> caps, cost_per_1k_tokens |-> c]

AVAILABLE_MODELS ==
  << Row("gpt-4", "gpt-4", "openai", 8192, 8192,
         <<"chat", "code_completion", "code_analysis", "function_calling">>, 3000),
     Row("gpt-4-turbo", "gpt-4-turbo", "openai", 4096, 128000,
         <<"chat", "code_completion", "code_analysis", "function_calling",
           "vision", "long_context">>, 1000),
     Row("gpt-3.5-turbo", "gpt-3.5-turbo", "openai", 4096, 16385,
         <<"chat", "code_completion", "function_calling">>, 100),
     Row("claude-3-opus", "claude-3-opus-20240229", "anthropic", 4096, 200000,
         <<"chat", "code_analysis", "long_context", "vision">>, 1500),
     Row("claude-3-sonnet", "claude-3-sonnet-20240229", "anthropic", 4096, 200000,
         <<"chat", "code_analysis", "long_context", "vision">>, 300),
     Row("claude-3-haiku", "claude-3-haiku-20240307", "anthropic", 4096, 200000,
         <<"chat", "code_completion", "long_context">>, 25),
     Row("gemini-pro", "gemini-pro", "google", 8192, 32768,
         <<"chat", "code_analysis", "function_calling">>, 50),
     Row("gemini-pro-vision", "gemini-pro-vision", "google", 8192, 32768,
         <<"chat", "code_analysis", "vision">>, 50),
     Row("grok-beta", "grok-beta", "xai", 4096, 131072,
         <<"chat", "code_analysis", "long_context">>, 500),
     Row("deepseek-coder", "deepseek-coder", "deepseek", 4096, 16384,
         <<"chat", "code_completion", "code_analysis">>, 140),
     Row("deepseek-chat", "deepseek-chat", "deepseek", 4096, 32768,
         <<"chat", "code_analysis">>, 140),
     Row("llama2", "llama2", "ollama", 4096, 4096,
         <<"chat", "code_completion">>, 0),
     Row("codellama", "codellama", "ollama", 4096, 16384,
         <<"code_completion", "code_analysis">>, 0),
     Row("mistral-large", "mistral-large-latest", "mistral", 8192, 32768,
         <<"chat", "code_analysis", "function_calling">>, 800),
     Row("mistral-medium", "mistral-medium-latest", "mistral", 8192, 32768,
         <<"chat", "code_analysis">>, 270),
     Row("command-r-plus", "command-r-plus", "cohere", 4096, 128000,
         <<"chat", "code_analysis", "long_context">>, 300) >>

TableKeys == {AVAILABLE_MODELS[i].key : i \in 1..Len(AVAILABLE_MODELS)}

\* AVAILABLE_MODELS[model_id] for a key of the table.
ModelInfo(model_id) ==
  AVAILABLE_MODELS[CHOOSE j \in 1..Len(AVAILABLE_MODELS) :
                     AVAILABLE_MODELS[j].key = model_id]

\* ------------------------------------------------------------- settings
\* The attributes _initialize_clients reads, in the order it reads them.
SettingsAttrs ==
  << [attr |-> "OPENAI_API_KEY",    provider |-> "openai"],
     [attr |-> "ANTHROPIC_API_KEY", provider |-> "anthropic"],
     [attr |-> "GOOGLE_API_KEY",    provider |-> "google"],
     [attr |-> "XAI_API_KEY",       provider |-> "xai"],
     [attr |-> "DEEPSEEK_API_KEY",  provider |-> "deepseek"],
     [attr |-> "OLLAMA_BASE_URL",   provider |-> "ollama"],
     [attr |-> "MISTRAL_API_KEY",   provider |-> "mistral"],
     [attr |-> "COHERE_API_KEY",    provider |-> "cohere"] >>

AttrNames == {SettingsAttrs[i].attr : i \in 1..Len(SettingsAttrs)}

\* A settings object gives every attribute one of: "absent" (the object has
\* no attribute of that name), "empty" (None or ""), "set".
SettingsWith(present, missing) ==
  [a \in AttrNames |-> IF a \in missing THEN "absent"
                       ELSE IF a \in present THEN "set" ELSE "empty"]

\* The Settings class of config.py declares its fields in lower case only
\* (openai_api_key, ...): none of the upper-case attributes exists on it.
RepoSettings == SettingsWith({}, AttrNames)

SettingsChoices ==
  { RepoSettings,
    SettingsWith({"OPENAI_API_KEY", "ANTHROPIC_API_KEY", "COHERE_API_KEY"}, {}) }

\* _initialize_clients: one try block around all providers; OPENAI_API_KEY is
\* read without hasattr, so a settings object lacking it raises
\* AttributeError and the except clause ends the initialisation.
RECURSIVE InitClientsFrom(_, _, _)
InitClientsFrom(s, i, acc) ==
  IF i > Len(SettingsAttrs) THEN acc
  ELSE LET a == SettingsAttrs[i] IN
       IF i = 1 /\ s[a.attr] = "absent" THEN acc
       ELSE InitClientsFrom(s, i + 1,
              IF s[a.attr] = "set" THEN acc \cup {a.provider} ELSE acc)

_initialize_clients(s) == InitClientsFrom(s, 1, {})

\* ---------------------------------------------------------------- inputs
UnknownId == "no-such-model"

\* request.messages of the calls: a system message and a user message.
Conversation ==
  << [role |-> "system", content |-> "instructions"],
     [role |-> "user", content |-> "question"] >>

\* The requests callers send (model_id, the caller-supplied provider and the
\* messages): a model of one provider, a model of a second provider sent with
\* a provider field that disagrees with the table, and an id that is no key
\* of the table.
Requests ==
  { [model_id |-> "gpt-4", provider |-> "openai",
     messages |-> Conversation],
    [model_id |-> "claude-3-haiku", provider |-> "openai",
     messages |-> Conversation],
    [model_id |-> UnknownId, provider |-> "openai",
     messages |-> Conversation] }

\* The calls made: every request with fallback enabled (the /generate
\* endpoint), and one with fallback disabled (as /compare and /benchmark call).
StartChoices ==
  {<<r, TRUE>> : r \in Requests} \cup
  {<<[model_id |-> "gpt-4", provider |-> "openai",
      messages |-> Conversation], FALSE>>}

\* Settings.fallback_models default of config.py.
DefaultFallbackModels == <<"gpt-3.5-turbo", "claude-3-haiku", "gemini-pro">>

\* The fallback lists a MultiModelConfig may carry: none, the default, and
\* one naming an id that is no key of the table, a requested model, and a
\* model whose provider has a client but no adapter branch.
FallbackChoices ==
  { <<>>,
    DefaultFallbackModels,
    <<UnknownId, "gpt-4", "command-r-plus", "gpt-3.5-turbo">> }

\* total_tokens an upstream reply reports.
TokenChoices == {0, 50}

\* Ways an adapter call fails once it was dispatched.
UpstreamErrors == {"ProviderCallFailed"}

AllIds == TableKeys \cup {UnknownId}

\* ----------------------------------------------------------------- state
VARIABLES
  clients,          \* self.clients: the providers that have a client
  config,           \* self.config: [set, fallback_models]; set = FALSE is None
  usage_stats,      \* self.usage_stats: model id -> ModelUsageStats
  task,             \* per generate_response task: its local variables
  calls,            \* number of generate_response calls started
  hist,             \* history: per model, the <<tokens, elapsed>> of its
                    \* successes, kept in ascending order
  failedFallbacks,  \* history: per model, its adapter calls as a fallback
                    \* that failed
  rescued,          \* history: per primary model, calls whose primary adapter
                    \* call failed and that a fallback answered
  raisedCalls,      \* history: per primary model, calls that raised
  snapshot,         \* the dictionary a get_usage_stats caller holds
  stream,           \* the streaming call: the generators of /generate/stream
  registry,         \* the registry queries made and what they returned
  startup,          \* the settings object and whether __init__ has run
  invocation,       \* the last _call_model or _stream_model run on its own
  ws                \* the /ws connection: server, client and the two queues

\* The state outside the service object and its generate_response tasks:
\* what the callers of get_usage_stats, of the streaming endpoint and of the
\* registry queries hold, the settings the service was built from, a
\* _call_model or _stream_model run on its own, and the WebSocket endpoint.
readerVars == <<snapshot, stream, registry, startup, invocation, ws>>

\* The construction of the service, single adapter invocations and the
\* WebSocket endpoint.
frontVars == <<startup, invocation, ws>>

\* The state of the generate_response tasks and their history.
generateVars == <<task, hist, failedFallbacks, rescued, raisedCalls>>

vars ==
  <<clients, config, usage_stats, task, calls, hist, failedFallbacks,
    rescued, raisedCalls, snapshot, stream, registry, startup, invocation, ws>>

\* ModelUsageStats(): the dataclass defaults.  last_used is a wall-clock
\* reading that nothing compares or computes with: it is "None" or "time".
ModelUsageStats ==
  [total_requests |-> 0, total_tokens |-> 0, total_cost |-> 0,
   avg_response_time |-> <<0, 1>>, error_count |-> 0, last_used |-> "None"]

\* The entry of model_id, as a reader that creates it on demand sees it.
Stats(us, model_id) ==
  IF model_id \in DOMAIN us THEN us[model_id] ELSE ModelUsageStats

RECURSIVE GCD(_, _)
GCD(a, b) == IF b = 0 THEN a ELSE GCD(b, a % b)

\* The fraction num/den in lowest terms.
Frac(num, den) ==
  IF num = 0 THEN <<0, 1>>
  ELSE LET g == GCD(num, den) IN <<num \div g, den \div g>>

\* Variant of RunningAverage: the old average is weighted by n, not n - 1.
RunningAverageWeightN(avg, n, response_time) ==
  Frac(avg[1] * n + response_time * avg[2], avg[2] * n)

\* (avg * (n - 1) + response_time) / n
RunningAverage(avg, n, response_time) ==
  Frac(avg[1] * (n - 1) + response_time * avg[2], avg[2] * n)

\* response.usage.get("total_tokens", 0); usage is <<>> for None.
UsageTotal(response) ==
  IF response.usage # <<>> THEN response.usage[1] ELSE 0

\* Variant of CostDelta: total_tokens // 1000 (floor division) in place of
\* total_tokens / 1000.
CostDeltaFloorDiv(model_id, response) ==
  IF /\ model_id \in TableKeys
     /\ ModelInfo(model_id).cost_per_1k_tokens # 0
     /\ response.usage # <<>>
    THEN (UsageTotal(response) \div 1000) * 1000
           * ModelInfo(model_id).cost_per_1k_tokens
    ELSE 0

\* The cost added for one response: (total_tokens / 1000) * cost_per_1k_tokens.
CostDelta(model_id, response) ==
  IF /\ model_id \in TableKeys
     /\ ModelInfo(model_id).cost_per_1k_tokens # 0
     /\ response.usage # <<>>
    THEN UsageTotal(response) * ModelInfo(model_id).cost_per_1k_tokens
    ELSE 0

\* Variant of _update_usage_stats: the entry is rebuilt from a new
\* ModelUsageStats() on every call, as if the test "model_id not in
\* self.usage_stats" were dropped: what earlier calls recorded is lost.
_update_usage_stats_from_new(us, model_id, response_time, response) ==
  LET s == ModelUsageStats
      updated ==
        [s EXCEPT !.total_requests = 1,
                  !.last_used = "time",
                  !.total_tokens = UsageTotal(response),
                  !.total_cost = CostDelta(model_id, response),
                  !.avg_response_time = Frac(response_time, 1)]
  IN (model_id :> updated) @@ us

\* response_time is time.time() - start_time.
_update_usage_stats(us, model_id, response_time, response) ==
  LET s == Stats(us, model_id)
      n == s.total_requests + 1
      updated ==
        [s EXCEPT !.total_requests = n,
                  !.last_used = "time",
                  !.total_tokens = @ + UsageTotal(response),
                  !.total_cost = @ + CostDelta(model_id, response),
                  !.avg_response_time =
                     RunningAverage(@, n, response_time)]
  IN (model_id :> updated) @@ us

\* Variant of _update_error_stats: the failed call is counted as a request.
_update_error_stats_counts_request(us, model_id) ==
  (model_id :> [Stats(us, model_id) EXCEPT !.error_count = @ + 1,
                                           !.total_requests = @ + 1]) @@ us

_update_error_stats(us, model_id) ==
  (model_id :> [Stats(us, model_id) EXCEPT !.error_count = @ + 1]) @@ us

\* --------------------------------------------------------- task records
NoError == [kind |-> "none", model_id |-> ""]
NoResponse == [model_id |-> "", provider |-> "", usage |-> <<>>]
NoResult ==
  [status |-> "none", response |-> NoResponse,
   error |-> [kind |-> "none", last |-> NoError]]

\* No request object.
NoRequest == [model_id |-> "", provider |-> "", messages |-> <<>>]

IdleTask ==
  [pc |-> "idle",
   request |-> NoRequest,  \* the caller's request object
   fallback |-> FALSE,
   elapsed |-> 0,      \* time.time() - start_time
   cur |-> "",         \* model id of the adapter call being awaited
   adapter |-> "",     \* the adapter coroutine being awaited
   fallback_request |-> NoRequest,  \* the request object the loop built
   idx |-> 0,          \* 0: primary; i > 0: position in the fallback list
   fb |-> <<>>,        \* the list the fallback loop iterates
                       \* (elapsed, cur, adapter, fallback_request, idx and
                       \* fb are locals of the call: a finished call holds
                       \* none)
   e |-> NoError,      \* the exception bound by "except Exception as e"
   attempts |-> <<>>,  \* history: the _call_model attempts of this call
   result |-> NoResult]

Attempt(model_id, dispatched, ok, error) ==
  [model_id |-> model_id, dispatched |-> dispatched, ok |-> ok, error |-> error]

\* The branch the if/elif chain of _call_model takes for a provider.
AdapterFor(provider) ==
  IF provider = "openai" THEN "_call_openai"
  ELSE IF provider = "anthropic" THEN "_call_anthropic"
  ELSE IF provider = "google" THEN "_call_google"
  ELSE IF provider \in {"xai", "deepseek", "ollama", "mistral"}
    THEN "_call_openai_compatible"
  ELSE "Unsupported"

\* Variant of Adapter: the branch is chosen by the provider field of the
\* request.
AdapterOfRequestProvider(request) == AdapterFor(request.provider)

\* The adapter _call_model(request) awaits: model_info is the table row of
\* request.model_id and the branch is chosen by model_info.provider.
Adapter(request) == AdapterFor(ModelInfo(request.model_id).provider)

\* Variant of BindFallbackRequest: no copy is made, the two assignments go
\* to the caller's request object.
BindFallbackRequestNoCopy(tk, m) ==
  LET r == [tk.request EXCEPT !.model_id = m,
                              !.provider = ModelInfo(m).provider]
  IN [tk EXCEPT !.request = r, !.fallback_request = r]

\* fallback_request = request.copy(); fallback_request.model_id = m;
\* fallback_request.provider = AVAILABLE_MODELS[m].provider, for a key m of
\* the table.  The copy is shallow: it holds the messages list of the request.
BindFallbackRequest(tk, m) ==
  [tk EXCEPT !.fallback_request =
     [tk.request EXCEPT !.model_id = m, !.provider = ModelInfo(m).provider]]

\* _call_model up to the adapter call: the error it raises before any
\* upstream call, or "dispatch" when it reaches a provider adapter.
Resolve(cl, model_id) ==
  IF model_id \notin TableKeys THEN "UnknownModel"
  ELSE LET provider == ModelInfo(model_id).provider IN
       IF provider \notin cl THEN "NotConfigured"
       ELSE IF provider \in {"openai", "anthropic", "google", "xai",
                             "deepseek", "ollama", "mistral"}
              THEN "dispatch"
              ELSE "Unsupported"

\* Variant of RaiseAllFailed: the failure is swallowed and an empty
\* response is returned.
RaiseAllFailedReturnsEmpty(tk) ==
  [tk EXCEPT !.pc = "done",
             !.cur = "", !.idx = 0, !.fb = <<>>, !.elapsed = 0,
             !.adapter = "", !.fallback_request = NoRequest,
             !.result = [status |-> "returned", response |-> NoResponse,
                         error |-> [kind |-> "none", last |-> NoError]]]

\* _update_error_stats(request.model_id); raise Exception("All models
\* failed. Last error: {e}")
RaiseAllFailed(tk) ==
  [tk EXCEPT !.pc = "done",
             !.cur = "", !.idx = 0, !.fb = <<>>, !.elapsed = 0,
             !.adapter = "", !.fallback_request = NoRequest,
             !.result = [status |-> "raised", response |-> NoResponse,
                         error |-> [kind |-> "AllModelsFailed", last |-> tk.e]]]

\* Variant of FallbackLoop: the loop does not skip the requested model.
RECURSIVE FallbackLoopNoSkip(_, _, _)
FallbackLoopNoSkip(cl, tk, i) ==
  IF i > Len(tk.fb) THEN RaiseAllFailed(tk)
  ELSE
    LET m == tk.fb[i] IN
    IF m \notin TableKeys
      THEN FallbackLoopNoSkip(cl,
             [tk EXCEPT !.attempts =
                Append(@, Attempt(m, FALSE, FALSE,
                                  [kind |-> "KeyError", model_id |-> m]))],
             i + 1)
    ELSE IF Resolve(cl, m) = "dispatch"
      THEN LET tk1 == BindFallbackRequest(tk, m) IN
           [tk1 EXCEPT !.pc = "awaiting", !.cur = m, !.idx = i,
                       !.adapter = Adapter(tk1.fallback_request)]
      ELSE FallbackLoopNoSkip(cl,
             [tk EXCEPT !.attempts =
                Append(@, Attempt(m, FALSE, FALSE,
                                  [kind |-> Resolve(cl, m), model_id |-> m]))],
             i + 1)

\* Variant of FallbackLoop: a fallback attempt is itself a call with
\* fallback, whose loop skips the model it was made for (the one that just
\* failed) instead of the model the caller requested.
RECURSIVE FallbackLoopChained(_, _, _)
FallbackLoopChained(cl, tk, i) ==
  IF i > Len(tk.fb) THEN RaiseAllFailed(tk)
  ELSE
    LET m == tk.fb[i] IN
    IF m = tk.cur THEN FallbackLoopChained(cl, tk, i + 1)
    ELSE IF m \notin TableKeys
      THEN FallbackLoopChained(cl,
             [tk EXCEPT !.attempts =
                Append(@, Attempt(m, FALSE, FALSE,
                                  [kind |-> "KeyError", model_id |-> m]))],
             i + 1)
    ELSE IF Resolve(cl, m) = "dispatch"
      THEN LET tk1 == BindFallbackRequest(tk, m) IN
           [tk1 EXCEPT !.pc = "awaiting", !.cur = m, !.idx = i,
                       !.adapter = Adapter(tk1.fallback_request)]
      ELSE FallbackLoopChained(cl,
             [tk EXCEPT !.attempts =
                Append(@, Attempt(m, FALSE, FALSE,
                                  [kind |-> Resolve(cl, m), model_id |-> m]))],
             i + 1)

\* The for loop over the fallback list from position i, run until it
\* suspends in an adapter call or falls through to the final raise.
RECURSIVE FallbackLoop(_, _, _)
FallbackLoop(cl, tk, i) ==
  IF i > Len(tk.fb) THEN RaiseAllFailed(tk)
  ELSE
    LET m == tk.fb[i] IN
    IF m = tk.request.model_id THEN FallbackLoop(cl, tk, i + 1)
    ELSE IF m \notin TableKeys
      THEN \* AVAILABLE_MODELS[fallback_model_id] raises KeyError
           FallbackLoop(cl,
             [tk EXCEPT !.attempts =
                Append(@, Attempt(m, FALSE, FALSE,
                                  [kind |-> "KeyError", model_id |-> m]))],
             i + 1)
    ELSE IF Resolve(cl, m) = "dispatch"
      THEN LET tk1 == BindFallbackRequest(tk, m) IN
           [tk1 EXCEPT !.pc = "awaiting", !.cur = m, !.idx = i,
                       !.adapter = Adapter(tk1.fallback_request)]
      ELSE FallbackLoop(cl,
             [tk EXCEPT !.attempts =
                Append(@, Attempt(m, FALSE, FALSE,
                                  [kind |-> Resolve(cl, m), model_id |-> m]))],
             i + 1)

\* Variant of OnPrimaryError: the fallback flag of the call is not consulted.
OnPrimaryErrorIgnoresFlag(cl, cfg, tk, error) ==
  LET tk1 == [tk EXCEPT !.e = error] IN
  IF cfg.set /\ cfg.fallback_models # <<>>
    THEN FallbackLoop(cl, [tk1 EXCEPT !.fb = cfg.fallback_models], 1)
    ELSE RaiseAllFailed(tk1)

\* The except clause of the primary call.
OnPrimaryError(cl, cfg, tk, error) ==
  LET tk1 == [tk EXCEPT !.e = error] IN
  IF tk.fallback /\ cfg.set /\ cfg.fallback_models # <<>>
    THEN FallbackLoop(cl, [tk1 EXCEPT !.fb = cfg.fallback_models], 1)
    ELSE RaiseAllFailed(tk1)

\* -------------------------------------------------------------- history
\* h with the pair x added; h is kept in ascending (lexicographic) order.
Before(x, y) == x[1] < y[1] \/ (x[1] = y[1] /\ x[2] <= y[2])

InsertSorted(h, x) ==
  LET k == Cardinality({i \in 1..Len(h) : Before(h[i], x)})
  IN SubSeq(h, 1, k) \o <<x>> \o SubSeq(h, k + 1, Len(h))

\* The failed adapter calls to m as a fallback among the attempts of one
\* call (the first attempt of a call is the primary one).
CountFailed(attempts, m) ==
  Cardinality({i \in 2..Len(attempts) :
                 /\ attempts[i].model_id = m
                 /\ attempts[i].dispatched
                 /\ ~attempts[i].ok})

\* The history variables after task record tk was reached by a step.
Record(tk) ==
  IF tk.pc # "done"
    THEN UNCHANGED <<failedFallbacks, rescued, raisedCalls>>
    ELSE
      /\ failedFallbacks' =
           [m \in AllIds |-> failedFallbacks[m] + CountFailed(tk.attempts, m)]
      /\ rescued' =
           IF /\ tk.result.status = "returned"
              /\ tk.result.response.model_id # tk.request.model_id
              /\ tk.attempts[1].dispatched
             THEN [rescued EXCEPT ![tk.request.model_id] = @ + 1]
             ELSE rescued
      /\ raisedCalls' =
           IF tk.result.status = "raised"
             THEN [raisedCalls EXCEPT ![tk.request.model_id] = @ + 1]
             ELSE raisedCalls

\* -------------------------------------------------------- reader records
\* No get_usage_stats call has returned yet.  table is the returned
\* dictionary: model id -> the ModelUsageStats object it holds, named by the
\* id under which the tracker holds that same object.
NoSnapshot == [taken |-> FALSE, table |-> <<>>]

\* No streaming call has been made.
IdleStream ==
  [pc |-> "idle",
   model_id |-> "",
   path |-> "",           \* the branch of _stream_model taken
   chunks |-> 0,          \* upstream chunks read so far
   fragments |-> <<>>,    \* what stream_response has yielded
   sse |-> <<>>,          \* what generate_stream has yielded
   connection |-> "none", \* the upstream response of the adapter
   dispatched |-> <<>>,   \* history: the models an upstream call was made to
   failed |-> FALSE]      \* history: an exception reached stream_response

\* The service object built from the settings object s.
Started(s) == [settings |-> s, constructed |-> TRUE]


\* The value None of an optional argument.
None == <<>>

\* What an adapter sends upstream: the keyword arguments of the client call
\* (for Gemini, messages is the prompt, one line per message).
Payload(model, messages, system, is_stream) ==
  [model |-> model, messages |-> messages, system |-> system,
   stream |-> is_stream]

NoPayload == Payload("", <<>>, None, FALSE)

\* The usage dictionary of an AIModelResponse.
Usage(prompt_tokens, completion_tokens, total_tokens) ==
  [prompt_tokens |-> prompt_tokens, completion_tokens |-> completion_tokens,
   total_tokens |-> total_tokens]

NoUsage == Usage(0, 0, 0)

\* How a coroutine ends: with the AIModelResponse it returns (its model_id,
\* provider and usage), or with the exception it raises.
Returns(model_id, provider, usage) ==
  [status |-> "returned", model_id |-> model_id, provider |-> provider,
   usage |-> usage, error |-> ""]

Raises(error) ==
  [status |-> "raised", model_id |-> "", provider |-> "", usage |-> NoUsage,
   error |-> error]

NoOutcome ==
  [status |-> "none", model_id |-> "", provider |-> "", usage |-> NoUsage,
   error |-> ""]

\* A run of _call_model or _stream_model: the request, the adapter entered
\* ("" when the coroutine raised before), what was sent upstream, the usage
\* of the upstream reply and how the coroutine ended.
Invocation(op, request, adapter, payload, usage, outcome) ==
  [op |-> op, request |-> request, adapter |-> adapter, payload |-> payload,
   usage |-> usage, outcome |-> outcome]

\* Neither _call_model nor _stream_model has been run.
NoInvocation == Invocation("none", NoRequest, "", NoPayload, <<>>, NoOutcome)

\* A message on the WebSocket connection: its "type" and "id" entries,
\* "stream" of a chat message, "is_complete" of a chat_stream message.
ClientMessage(type, id, is_stream) ==
  [type |-> type, id |-> id, stream |-> is_stream, is_complete |-> FALSE]

ServerMessage(type, id, is_complete) ==
  [type |-> type, id |-> id, stream |-> FALSE, is_complete |-> is_complete]

NoMessage == ClientMessage("", "", FALSE)

\* No client has connected to /ws.
NoConnection ==
  [pc |-> "none",        \* where websocket_endpoint is suspended
   inbox |-> <<>>,       \* sent by the client, not yet read by the endpoint
   outbox |-> <<>>,      \* sent by the endpoint, not yet read by the client
   current |-> NoMessage, \* the chat message being answered
   chunks |-> 0,         \* chunks of the streamed answer sent so far
   log |-> <<>>]         \* history: what the client sent and received

NoAnswer == [op |-> "none", args |-> <<>>, result |-> <<>>]

\* No registry query has been made.  available is the history of the
\* get_available_models results, each with the number of generate_response
\* calls that had ended when it was returned.
NoQueries == [last |-> NoAnswer, available |-> <<>>]

\* ---------------------------------------------------------------- actions
Init ==
  /\ \E s \in SettingsChoices :
       /\ startup = Started(s)
       /\ clients = _initialize_clients(s)
  /\ config = [set |-> FALSE, fallback_models |-> <<>>]
  /\ usage_stats = <<>>
  /\ task = [t \in Tasks |-> IdleTask]
  /\ calls = 0
  /\ hist = [m \in AllIds |-> <<>>]
  /\ failedFallbacks = [m \in AllIds |-> 0]
  /\ rescued = [m \in AllIds |-> 0]
  /\ raisedCalls = [m \in AllIds |-> 0]
  /\ snapshot = NoSnapshot
  /\ stream = IdleStream
  /\ registry = NoQueries
  /\ invocation = NoInvocation
  /\ ws = NoConnection

\* self.config is a public attribute that __init__ sets to None; no code of
\* the repository assigns it.  SetConfig is an application installing a
\* MultiModelConfig on the service before it serves the first call.
SetConfig(fl) ==
  /\ ~config.set
  /\ calls = 0
  /\ config' = [set |-> TRUE, fallback_models |-> fl]
  /\ UNCHANGED <<clients, usage_stats, task, calls, hist,
                 failedFallbacks, rescued, raisedCalls>>
  /\ UNCHANGED readerVars

\* The clock advances by one unit: every call in flight has run one unit
\* longer (time that passes while no call is in flight changes no state).
Tick ==
  /\ \E t \in Tasks : task[t].pc = "awaiting"
  /\ \A t \in Tasks : task[t].pc = "awaiting" => task[t].elapsed < MaxTime
  /\ task' = [t \in Tasks |->
                IF task[t].pc = "awaiting"
                  THEN [task[t] EXCEPT !.elapsed = @ + 1]
                  ELSE task[t]]
  /\ UNCHANGED <<clients, config, usage_stats, calls, hist,
                 failedFallbacks, rescued, raisedCalls>>
  /\ UNCHANGED readerVars

\* The stats after a step that took a task to record tk: the final raise is
\* preceded by _update_error_stats(request.model_id).
AfterRaise(tk) ==
  IF tk.pc = "done" /\ tk.result.status = "raised"
    THEN _update_error_stats(usage_stats, tk.request.model_id)
    ELSE usage_stats

\* generate_response(request, fallback) from its entry to the first
\* suspension: the primary adapter call, a fallback adapter call when the
\* primary fails before any upstream call, or the final raise.
Start(t, request, fallback) ==
  /\ task[t].pc \in {"idle", "done"}
  /\ \A u \in Tasks : u < t => task[u].pc = "awaiting"
  /\ calls < MaxCalls
  /\ LET tk0 == [IdleTask EXCEPT
                   !.request = request,
                   !.fallback = fallback]
         model_id == request.model_id
         r == Resolve(clients, model_id)
         error == [kind |-> r, model_id |-> model_id]
         tk1 == IF r = "dispatch"
                  THEN [tk0 EXCEPT !.pc = "awaiting", !.cur = model_id,
                                   !.adapter = Adapter(request)]
                  ELSE OnPrimaryError(clients, config,
                         [tk0 EXCEPT !.attempts =
                            <<Attempt(model_id, FALSE, FALSE, error)>>],
                         error)
     IN /\ task' = [task EXCEPT ![t] = tk1]
        /\ usage_stats' = AfterRaise(tk1)
        /\ Record(tk1)
  /\ calls' = calls + 1
  /\ UNCHANGED <<clients, config, hist>>
  /\ UNCHANGED readerVars

\* The awaited adapter call returns a reply reporting `tokens` total tokens.
CallSucceeds(t, tokens) ==
  /\ task[t].pc = "awaiting"
  /\ LET tk == task[t]
         response == [model_id |-> tk.cur,
                      provider |-> ModelInfo(tk.cur).provider,
                      usage |-> <<tokens>>]
         tk1 == [tk EXCEPT
                   !.pc = "done",
                   !.cur = "", !.idx = 0, !.fb = <<>>, !.elapsed = 0,
                   !.adapter = "", !.fallback_request = NoRequest,
                   !.attempts = Append(@, Attempt(tk.cur, TRUE, TRUE, NoError)),
                   !.result = [status |-> "returned", response |-> response,
                               error |-> NoResult.error]]
     IN /\ usage_stats' =
             _update_usage_stats(usage_stats, tk.cur, tk.elapsed, response)
        /\ hist' = [hist EXCEPT ![tk.cur] =
                      InsertSorted(@, <<tokens, tk.elapsed>>)]
        /\ task' = [task EXCEPT ![t] = tk1]
        /\ Record(tk1)
  /\ UNCHANGED <<clients, config, calls>>
  /\ UNCHANGED readerVars

\* The awaited adapter call raises.
CallFails(t, kind) ==
  /\ task[t].pc = "awaiting"
  /\ LET tk == task[t]
         error == [kind |-> kind, model_id |-> tk.cur]
         tk0 == [tk EXCEPT
                   !.attempts = Append(@, Attempt(tk.cur, TRUE, FALSE, error))]
         tk1 == IF tk.idx = 0
                  THEN OnPrimaryError(clients, config, tk0, error)
                  ELSE FallbackLoop(clients, tk0, tk.idx + 1)
     IN /\ task' = [task EXCEPT ![t] = tk1]
        /\ usage_stats' = AfterRaise(tk1)
        /\ Record(tk1)
  /\ UNCHANGED <<clients, config, calls, hist>>
  /\ UNCHANGED readerVars

Next ==
  \/ \E fl \in FallbackChoices : SetConfig(fl)
  \/ Tick
  \/ \E t \in Tasks, c \in StartChoices : Start(t, c[1], c[2])
  \/ \E t \in Tasks, n \in TokenChoices : CallSucceeds(t, n)
  \/ \E t \in Tasks, k \in UpstreamErrors : CallFails(t, k)

Spec == Init /\ [][Next]_vars

\* The same calls with the passage of time guaranteed.  An awaited adapter
\* call ends only by CallSucceeds or CallFails, the upstream's reply: no
\* adapter passes a timeout to its client and no await is wrapped in a
\* timer, so the service has no step of its own that ends an await.  Nothing
\* obliges an upstream to reply, hence no fairness on these two actions.
LiveSpec == Init /\ [][Next]_vars /\ WF_vars(Tick)

\* ============================================================== streaming
\* The upstream chunks one stream reads at most.
MaxChunks == 2

\* The settings the streaming calls run under: the repository's Settings
\* class, and one with four providers configured (two that stream, one
\* answered without streaming, one that no adapter serves).
StreamSettingsChoices ==
  { RepoSettings,
    SettingsWith({"OPENAI_API_KEY", "ANTHROPIC_API_KEY", "GOOGLE_API_KEY",
                  "COHERE_API_KEY"}, {}) }

StreamRequests ==
  {"gpt-4", "claude-3-haiku", "gemini-pro", "command-r-plus", UnknownId}

\* delta.content of an upstream chunk: empty or not.
ChunkContents == {"", "text"}

StreamInit ==
  /\ \E s \in StreamSettingsChoices :
       /\ startup = Started(s)
       /\ clients = _initialize_clients(s)
  /\ config = [set |-> FALSE, fallback_models |-> <<>>]
  /\ usage_stats = <<>>
  /\ task = [t \in Tasks |-> IdleTask]
  /\ calls = 0
  /\ hist = [m \in AllIds |-> <<>>]
  /\ failedFallbacks = [m \in AllIds |-> 0]
  /\ rescued = [m \in AllIds |-> 0]
  /\ raisedCalls = [m \in AllIds |-> 0]
  /\ snapshot = NoSnapshot
  /\ stream = IdleStream
  /\ registry = NoQueries
  /\ invocation = NoInvocation
  /\ ws = NoConnection

\* _stream_model up to its first await: the error it raises, or the branch
\* it takes.
StreamResolve(cl, model_id) ==
  IF model_id \notin TableKeys THEN "UnknownModel"
  ELSE LET provider == ModelInfo(model_id).provider IN
       IF provider \notin cl THEN "NotConfigured"
       ELSE IF provider \in {"openai", "xai", "deepseek", "ollama", "mistral"}
              THEN "openai_compatible"
       ELSE IF provider = "anthropic" THEN "anthropic"
       ELSE "non_streaming"

\* A fragment stream_response yields: the n-th upstream chunk's text, the
\* content of a reply obtained without streaming (n = 0), or the error text.
TextFragment(content, n) == [kind |-> "text", content |-> content, n |-> n]
ErrorFragment == [kind |-> "error", content |-> "Error: e", n |-> 0]
NoFragment == [kind |-> "none", content |-> "", n |-> 0]

\* What generate_stream yields for a fragment: "data: {json content}\n\n".
Data(f) == [event |-> "content", fragment |-> f]

\* "data: [DONE]\n\n"
DoneMarker == [event |-> "[DONE]", fragment |-> NoFragment]

\* stream_response yields f; generate_stream wraps it and yields it on.
Emit(s, f) ==
  [s EXCEPT !.fragments = Append(@, f), !.sse = Append(@, Data(f))]

\* Variant of OnStreamError: the exception is logged and swallowed, nothing
\* is yielded: stream_response ends and generate_stream goes on to its marker.
OnStreamErrorSilent(s) ==
  [s EXCEPT !.failed = TRUE, !.pc = "marked",
            !.sse = Append(@, DoneMarker),
            !.connection =
               IF @ = "open" /\ s.path = "anthropic" THEN "released" ELSE @]

\* The except clause of stream_response: yield f"Error: {str(e)}".  An
\* exception that leaves _stream_anthropic leaves its "async with" block.
OnStreamError(s) ==
  [Emit(s, ErrorFragment) EXCEPT
     !.failed = TRUE, !.pc = "errored",
     !.connection =
        IF @ = "open" /\ s.path = "anthropic" THEN "released" ELSE @]

\* Variant of EndOfStream: generate_stream ends without yielding the marker.
EndOfStreamUnmarked(s) == [s EXCEPT !.pc = "finished"]

\* stream_response is exhausted: generate_stream leaves its loop and yields
\* "data: [DONE]\n\n".
EndOfStream(s) == [s EXCEPT !.sse = Append(@, DoneMarker), !.pc = "marked"]

streamOthers ==
  <<clients, config, usage_stats, calls, snapshot, registry, startup,
    invocation, ws>>

\* The consumer asks generate_stream for its first item: _stream_model runs
\* to its first await, or raises before it.
StreamStart(model_id) ==
  /\ stream.pc = "idle"
  /\ LET r == StreamResolve(clients, model_id)
         s0 == [stream EXCEPT !.model_id = model_id]
     IN stream' =
          IF r \in {"UnknownModel", "NotConfigured"}
            THEN OnStreamError(s0)
          ELSE IF r = "non_streaming" /\ Resolve(clients, model_id) # "dispatch"
            THEN OnStreamError([s0 EXCEPT !.path = r])
          ELSE [s0 EXCEPT !.path = r, !.pc = "connecting",
                          !.dispatched = Append(@, model_id)]
  /\ UNCHANGED streamOthers
  /\ UNCHANGED generateVars

\* The upstream accepts the streamed request: create(stream=True) returns,
\* or the "async with client.messages.stream(...)" block is entered.
UpstreamAccepts ==
  /\ stream.pc = "connecting"
  /\ stream.path \in {"openai_compatible", "anthropic"}
  /\ stream' = [stream EXCEPT !.pc = "reading", !.connection = "open"]
  /\ UNCHANGED streamOthers
  /\ UNCHANGED generateVars

\* The upstream sends a chunk.  _stream_openai_compatible yields its
\* delta.content when it is not empty and reads on otherwise;
\* _stream_anthropic yields every text of text_stream.
UpstreamChunk(content) ==
  /\ stream.pc = "reading"
  /\ stream.chunks < MaxChunks
  /\ LET s1 == [stream EXCEPT !.chunks = @ + 1] IN
     stream' =
       IF stream.path = "openai_compatible" /\ content = ""
         THEN s1
         ELSE [Emit(s1, TextFragment(content, s1.chunks)) EXCEPT
                 !.pc = "yielded"]
  /\ UNCHANGED streamOthers
  /\ UNCHANGED generateVars

\* The call made without streaming returns: response.content is yielded.
UpstreamReply(content) ==
  /\ stream.pc = "connecting"
  /\ stream.path = "non_streaming"
  /\ stream' = [Emit(stream, TextFragment(content, 0)) EXCEPT !.pc = "yielded"]
  /\ UNCHANGED streamOthers
  /\ UNCHANGED generateVars

\* The awaited upstream call raises: when the request is made, or between
\* two chunks.
UpstreamFails ==
  /\ stream.pc \in {"connecting", "reading"}
  /\ stream' = OnStreamError(stream)
  /\ UNCHANGED streamOthers
  /\ UNCHANGED generateVars

\* The upstream ends the stream: the adapter's loop, _stream_model and
\* stream_response end.  The response was read to its end ("consumed");
\* _stream_anthropic leaves its "async with" block.
UpstreamEnds ==
  /\ stream.pc = "reading"
  /\ stream' =
       EndOfStream([stream EXCEPT
                      !.connection = IF stream.path = "anthropic"
                                       THEN "released" ELSE "consumed"])
  /\ UNCHANGED streamOthers
  /\ UNCHANGED generateVars

\* The consumer asks for the next item.
Pull ==
  /\ stream.pc \in {"yielded", "errored", "marked"}
  /\ stream' =
       IF stream.pc = "marked" THEN [stream EXCEPT !.pc = "finished"]
       ELSE IF stream.pc = "errored" \/ stream.path = "non_streaming"
         THEN EndOfStream(stream)
       ELSE [stream EXCEPT !.pc = "reading"]
  /\ UNCHANGED streamOthers
  /\ UNCHANGED generateVars

\* The consumer stops reading after a fragment and the generators are
\* closed at their yield: GeneratorExit is no Exception, so stream_response
\* yields nothing more.  _stream_anthropic leaves its "async with" block;
\* _stream_openai_compatible holds its response in a local variable and has
\* no statement that closes it.
ConsumerStops ==
  /\ stream.pc \in {"yielded", "errored"}
  /\ stream' =
       [stream EXCEPT
          !.pc = "closed",
          !.connection =
             IF @ = "open" /\ stream.path = "anthropic" THEN "released" ELSE @]
  /\ UNCHANGED streamOthers
  /\ UNCHANGED generateVars

StreamNext ==
  \/ \E m \in StreamRequests : StreamStart(m)
  \/ UpstreamAccepts
  \/ \E c \in ChunkContents : UpstreamChunk(c)
  \/ \E c \in ChunkContents : UpstreamReply(c)
  \/ UpstreamFails
  \/ UpstreamEnds
  \/ Pull
  \/ ConsumerStops

StreamSpec == StreamInit /\ [][StreamNext]_vars

\* ======================================================== registry queries
\* The largest limit asked of get_cheapest_models.
MaxLimit == 5

\* suitable_models[:5] of get_model_recommendations.
RecommendationLimit == 5

\* cost_per_1k_tokens = None, the default of the ModelInfo field (no row of
\* the table leaves it out).
NoCost == -1

TableIds == {AVAILABLE_MODELS[i].id : i \in 1..Len(AVAILABLE_MODELS)}

\* The position of a row in the table (the insertion order of the dict).
TableIndex(row) ==
  CHOOSE j \in 1..Len(AVAILABLE_MODELS) : AVAILABLE_MODELS[j] = row

\* The values of ModelCapability.
Capabilities ==
  {"chat", "code_completion", "code_analysis", "function_calling", "vision",
   "long_context"}

\* capability in model.capabilities
Has(row, capability) ==
  \E i \in 1..Len(row.capabilities) : row.capabilities[i] = capability

\* cap.value.startswith("code"), over the values of ModelCapability.
StartsWithCode(capability) ==
  capability \in {"code_completion", "code_analysis"}

Min(a, b) == IF a <= b THEN a ELSE b

\* s[:n] for n >= 0
Take(s, n) == SubSeq(s, 1, Min(n, Len(s)))

\* Variant of InsertByKey: the pair goes before the pairs of equal key.
InsertByKeyBeforeTies(sorted, p) ==
  LET k == Cardinality({i \in 1..Len(sorted) : sorted[i][1] < p[1]})
  IN SubSeq(sorted, 1, k) \o <<p>> \o SubSeq(sorted, k + 1, Len(sorted))

\* The pair p = <<key, row>> put into a list sorted by key, after the pairs
\* whose key is not greater: the stable order of sorted() and list.sort().
InsertByKey(sorted, p) ==
  LET k == Cardinality({i \in 1..Len(sorted) : sorted[i][1] <= p[1]})
  IN SubSeq(sorted, 1, k) \o <<p>> \o SubSeq(sorted, k + 1, Len(sorted))

RECURSIVE SortFrom(_, _, _)
SortFrom(pairs, i, sorted) ==
  IF i > Len(pairs) THEN sorted
  ELSE SortFrom(pairs, i + 1, InsertByKey(sorted, pairs[i]))

\* sorted(models, key=...) for keyed == <<key of row, row>> of every row of
\* models, in list order: the rows in ascending key order.
SortedByKey(keyed) ==
  LET sorted == SortFrom(keyed, 1, <<>>)
  IN [i \in 1..Len(sorted) |-> sorted[i][2]]

\* AVAILABLE_MODELS.get(model_id): <<row>>, or <<>> for None.
get_model_info(model_id) ==
  IF model_id \in TableKeys THEN <<ModelInfo(model_id)>> ELSE <<>>

get_models_by_capability(capability) ==
  LET Supports(row) == Has(row, capability)
  IN SelectSeq(AVAILABLE_MODELS, Supports)

get_cheapest_models(capability, limit) ==
  LET models == get_models_by_capability(capability)
      WithCost(m) == m.cost_per_1k_tokens # NoCost
      models_with_cost == SelectSeq(models, WithCost)
      keyed == [i \in 1..Len(models_with_cost) |->
                  <<models_with_cost[i].cost_per_1k_tokens,
                    models_with_cost[i]>>]
  IN Take(SortedByKey(keyed), limit)

\* Variant of AvailableFrom: a model found is put in front of the list.
RECURSIVE AvailableFromPrepend(_, _, _)
AvailableFromPrepend(cl, i, available) ==
  IF i > Len(AVAILABLE_MODELS) THEN available
  ELSE AvailableFromPrepend(cl, i + 1,
         IF AVAILABLE_MODELS[i].provider \in cl
           THEN <<AVAILABLE_MODELS[i]>> \o available
           ELSE available)

\* The loop of get_available_models from table position i on.
RECURSIVE AvailableFrom(_, _, _)
AvailableFrom(cl, i, available) ==
  IF i > Len(AVAILABLE_MODELS) THEN available
  ELSE AvailableFrom(cl, i + 1,
         IF AVAILABLE_MODELS[i].provider \in cl
           THEN Append(available, AVAILABLE_MODELS[i])
           ELSE available)

get_available_models(cl) == AvailableFrom(cl, 1, <<>>)

\* Variant of Suitable: the context window must exceed the length asked for.
SuitableStrictlyLonger(model, task_type, context_length) ==
  /\ model.context_length > context_length
  /\ \/ task_type = "code" /\ \E c \in Capabilities :
                                 Has(model, c) /\ StartsWithCode(c)
     \/ task_type = "chat" /\ Has(model, "chat")
     \/ task_type = "analysis" /\ Has(model, "code_analysis")

\* The test a model passes to be appended to suitable_models.
Suitable(model, task_type, context_length) ==
  /\ model.context_length >= context_length
  /\ \/ task_type = "code" /\ \E c \in Capabilities :
                                 Has(model, c) /\ StartsWithCode(c)
     \/ task_type = "chat" /\ Has(model, "chat")
     \/ task_type = "analysis" /\ Has(model, "code_analysis")

\* x.cost_per_1k_tokens or 0
CostOrZero(x) ==
  IF x.cost_per_1k_tokens = NoCost THEN 0 ELSE x.cost_per_1k_tokens

get_model_recommendations(cl, task_type, context_length) ==
  LET available_models == get_available_models(cl)
      IsSuitable(m) == Suitable(m, task_type, context_length)
      suitable == SelectSeq(available_models, IsSuitable)
      suitable_models ==
        SortedByKey([i \in 1..Len(suitable) |->
                       <<CostOrZero(suitable[i]), suitable[i]>>])
      top == Take(suitable_models, RecommendationLimit)
  IN [i \in 1..Len(top) |-> top[i].id]

\* The settings the queries run under: the repository's Settings class, three
\* providers configured, and every provider configured.
RegistrySettingsChoices ==
  { RepoSettings,
    SettingsWith({"OPENAI_API_KEY", "ANTHROPIC_API_KEY", "COHERE_API_KEY"}, {}),
    SettingsWith(AttrNames, {}) }

\* The ids asked of get_model_info: every key and every id of the table, and
\* one that is neither.
InfoQueries == TableKeys \cup TableIds \cup {UnknownId}

\* task_type: the three the function knows and one it does not.
TaskTypes == {"code", "chat", "analysis", "cost_effective"}

\* context_length: the default, the window of a table row, and values above
\* most and all windows of the table.
ContextChoices == {4000, 16385, 100000, 300000}

RegistryInit ==
  /\ \E s \in RegistrySettingsChoices :
       /\ startup = Started(s)
       /\ clients = _initialize_clients(s)
  /\ config = [set |-> FALSE, fallback_models |-> <<>>]
  /\ usage_stats = <<>>
  /\ task = [t \in Tasks |-> IdleTask]
  /\ calls = 0
  /\ hist = [m \in AllIds |-> <<>>]
  /\ failedFallbacks = [m \in AllIds |-> 0]
  /\ rescued = [m \in AllIds |-> 0]
  /\ raisedCalls = [m \in AllIds |-> 0]
  /\ snapshot = NoSnapshot
  /\ stream = IdleStream
  /\ registry = NoQueries
  /\ invocation = NoInvocation
  /\ ws = NoConnection

registryOthers ==
  <<clients, config, usage_stats, calls, snapshot, stream, startup,
    invocation, ws>>

Answer(op, args, result) == [op |-> op, args |-> args, result |-> result]

GetModelInfo(model_id) ==
  /\ registry' =
       [registry EXCEPT
          !.last = Answer("get_model_info", <<model_id>>,
                          get_model_info(model_id))]
  /\ UNCHANGED registryOthers
  /\ UNCHANGED generateVars

GetCheapestModels(capability, limit) ==
  /\ registry' =
       [registry EXCEPT
          !.last = Answer("get_cheapest_models", <<capability, limit>>,
                          get_cheapest_models(capability, limit))]
  /\ UNCHANGED registryOthers
  /\ UNCHANGED generateVars

GetModelRecommendations(task_type, context_length) ==
  /\ registry' =
       [registry EXCEPT
          !.last =
             Answer("get_model_recommendations", <<task_type, context_length>>,
                    get_model_recommendations(clients, task_type,
                                              context_length))]
  /\ UNCHANGED registryOthers
  /\ UNCHANGED generateVars

RegistryNext ==
  \/ \E q \in InfoQueries : GetModelInfo(q)
  \/ \E c \in Capabilities, n \in 0..MaxLimit : GetCheapestModels(c, n)
  \/ \E tt \in TaskTypes, cl \in ContextChoices :
       GetModelRecommendations(tt, cl)

RegistrySpec == RegistryInit /\ [][RegistryNext]_vars

\* ======================================================= tracker readers
\* The number of get_available_models results the history keeps.
MaxQueries == 2

\* The models whose calls end in the specifications below.
TrackedIds == {"gpt-4", "claude-3-haiku"}

\* get_usage_stats: self.usage_stats.copy() builds a new dictionary whose
\* values are the ModelUsageStats objects of the tracker themselves, not
\* copies of them.  The tracker creates the object of a model once and only
\* assigns its fields afterwards, so the object is named by its model id.
get_usage_stats(us) == [m \in DOMAIN us |-> m]

\* What a reader of the dictionary `table` sees: the current fields of the
\* objects it holds.
Deref(us, table) == [m \in DOMAIN table |-> us[table[m]]]

\* stats = service.get_usage_stats()
GetUsageStats ==
  /\ ~snapshot.taken
  /\ snapshot' =
       [taken |-> TRUE, table |-> get_usage_stats(usage_stats)]
  /\ UNCHANGED <<clients, config, usage_stats, calls, stream, registry>>
  /\ UNCHANGED frontVars
  /\ UNCHANGED generateVars

\* The holder of the dictionary removes a key: del stats[m].
SnapshotDelete(m) ==
  /\ snapshot.taken
  /\ m \in DOMAIN snapshot.table
  /\ snapshot' =
       [snapshot EXCEPT
          !.table = [k \in (DOMAIN snapshot.table) \ {m} |-> snapshot.table[k]]]
  /\ UNCHANGED <<clients, config, usage_stats, calls, stream, registry>>
  /\ UNCHANGED frontVars
  /\ UNCHANGED generateVars

\* The holder of the dictionary assigns a field of an entry:
\* stats[m].total_requests = 0.
SnapshotResetEntry(m) ==
  /\ snapshot.taken
  /\ m \in DOMAIN snapshot.table
  /\ usage_stats' =
       [usage_stats EXCEPT ![snapshot.table[m]].total_requests = 0]
  /\ UNCHANGED <<clients, config, calls, snapshot, stream, registry>>
  /\ UNCHANGED frontVars
  /\ UNCHANGED generateVars

\* A generate_response call for model_id runs to its end and returns the
\* reply of the requested model: the tracker update of the success path.
CompleteSuccess(model_id, tokens, response_time) ==
  /\ calls < MaxCalls
  /\ Resolve(clients, model_id) = "dispatch"
  /\ usage_stats' =
       _update_usage_stats(usage_stats, model_id, response_time,
                           [model_id |-> model_id,
                            provider |-> ModelInfo(model_id).provider,
                            usage |-> <<tokens>>])
  /\ calls' = calls + 1
  /\ UNCHANGED <<clients, config, snapshot, stream, registry>>
  /\ UNCHANGED frontVars
  /\ UNCHANGED generateVars

\* A generate_response call for model_id runs to its end and raises: the
\* tracker update before the final raise.
CompleteFailure(model_id) ==
  /\ calls < MaxCalls
  /\ usage_stats' = _update_error_stats(usage_stats, model_id)
  /\ calls' = calls + 1
  /\ UNCHANGED <<clients, config, snapshot, stream, registry>>
  /\ UNCHANGED frontVars
  /\ UNCHANGED generateVars

\* models = service.get_available_models()
GetAvailableModels ==
  /\ Len(registry.available) < MaxQueries
  /\ registry' =
       [registry EXCEPT
          !.available =
             Append(@, [result |-> get_available_models(clients),
                        after |-> calls])]
  /\ UNCHANGED <<clients, config, usage_stats, calls, snapshot, stream>>
  /\ UNCHANGED frontVars
  /\ UNCHANGED generateVars

TrackerNext ==
  \/ GetUsageStats
  \/ GetAvailableModels
  \/ \E m \in TrackedIds : SnapshotDelete(m)
  \/ \E m \in TrackedIds : SnapshotResetEntry(m)
  \/ \E m \in TrackedIds, n \in TokenChoices, rt \in 0..MaxTime :
       CompleteSuccess(m, n, rt)
  \/ \E m \in TrackedIds : CompleteFailure(m)

TrackerSpec == Init /\ [][TrackerNext]_vars

\* =============================================================== adapters
\* The longest request.messages of the invocations.
MaxMessages == 3

\* The messages of a request: two system messages of different content, a
\* user message and an assistant message.
MessageChoices ==
  { [role |-> "system", content |-> "rules"],
    [role |-> "system", content |-> "persona"],
    [role |-> "user", content |-> "question"],
    [role |-> "assistant", content |-> "answer"] }

RECURSIVE SeqsUpTo(_, _)
SeqsUpTo(S, n) ==
  IF n = 0 THEN {<<>>}
  ELSE LET shorter == SeqsUpTo(S, n - 1)
       IN shorter \cup {Append(q, x) : q \in shorter, x \in S}

\* The models invoked: one per adapter, one of a provider without adapter
\* branch, and an id that is no key of the table.
InvokedIds ==
  {"gpt-4", "claude-3-haiku", "gemini-pro", "deepseek-chat", "command-r-plus",
   UnknownId}

\* The usage an upstream reply reports, as <<prompt tokens, completion
\* tokens>>; <<>> is a reply without usage (response.usage is None, the
\* reply has no usage_metadata).
ReplyUsageChoices == {<<>>, <<10, 5>>}

\* The settings the invocations run under: the repository's Settings class
\* and one with every provider configured.
AdapterSettingsChoices == {RepoSettings, SettingsWith(AttrNames, {})}

\* The loop of _call_anthropic and of _stream_anthropic over
\* request.messages from position i on: system_message is assigned the
\* content of every system message, the other messages are appended.
RECURSIVE AnthropicFormatFrom(_, _, _, _)
AnthropicFormatFrom(msgs, i, system_message, messages) ==
  IF i > Len(msgs)
    THEN [system |-> IF system_message # "" THEN <<system_message>> ELSE None,
          messages |-> messages]
  ELSE IF msgs[i].role = "system"
    THEN AnthropicFormatFrom(msgs, i + 1, msgs[i].content, messages)
    ELSE AnthropicFormatFrom(msgs, i + 1, system_message,
           Append(messages,
                  [role |-> msgs[i].role, content |-> msgs[i].content]))

AnthropicFormat(msgs) == AnthropicFormatFrom(msgs, 1, "", <<>>)

\* The prompt _call_google builds: "Human" for a user message, "Assistant"
\* for any other.
GeminiPrompt(msgs) ==
  [i \in 1..Len(msgs) |->
     [role |-> IF msgs[i].role = "user" THEN "Human" ELSE "Assistant",
      content |-> msgs[i].content]]

\* The arguments of the upstream call each adapter makes.
CallPayload(adapter, request) ==
  IF adapter = "_call_anthropic"
    THEN LET f == AnthropicFormat(request.messages)
         IN Payload(request.model_id, f.messages, f.system, FALSE)
  ELSE IF adapter = "_call_google"
    THEN Payload(request.model_id, GeminiPrompt(request.messages), None, FALSE)
  ELSE Payload(request.model_id, request.messages, None, FALSE)

\* The AIModelResponse each adapter builds from the upstream reply.  usage
\* is read as response.usage.prompt_tokens by _call_openai and as
\* response.usage.input_tokens by _call_anthropic (AttributeError on None),
\* guarded by "if response.usage else 0" in _call_openai_compatible and by
\* hasattr(response, 'usage_metadata') in _call_google.
_call_openai(request, model_info, usage) ==
  IF usage = <<>> THEN Raises("AttributeError")
  ELSE Returns(request.model_id, model_info.provider,
               Usage(usage[1], usage[2], usage[1] + usage[2]))

_call_anthropic(request, model_info, usage) ==
  IF usage = <<>> THEN Raises("AttributeError")
  ELSE Returns(request.model_id, model_info.provider,
               Usage(usage[1], usage[2], usage[1] + usage[2]))

_call_google(request, model_info, usage) ==
  Returns(request.model_id, model_info.provider,
          IF usage = <<>> THEN NoUsage
          ELSE Usage(usage[1], usage[2], usage[1] + usage[2]))

_call_openai_compatible(request, model_info, usage) ==
  Returns(request.model_id, model_info.provider,
          IF usage = <<>> THEN NoUsage
          ELSE Usage(usage[1], usage[2], usage[1] + usage[2]))

\* _call_model(request), the upstream replying with `usage`.
_call_model(cl, request, usage) ==
  LET r == Resolve(cl, request.model_id) IN
  IF r # "dispatch"
    THEN Invocation("_call_model", request, "", NoPayload, <<>>, Raises(r))
  ELSE
    LET model_info == ModelInfo(request.model_id)
        adapter == Adapter(request)
        outcome ==
          IF adapter = "_call_openai"
            THEN _call_openai(request, model_info, usage)
          ELSE IF adapter = "_call_anthropic"
            THEN _call_anthropic(request, model_info, usage)
          ELSE IF adapter = "_call_google"
            THEN _call_google(request, model_info, usage)
          ELSE _call_openai_compatible(request, model_info, usage)
    IN Invocation("_call_model", request, adapter,
                  CallPayload(adapter, request), usage, outcome)

\* _stream_model(request) up to the upstream call it makes: the streamed
\* request of _stream_openai_compatible or of _stream_anthropic, or
\* _call_model for the other providers.
_stream_model(cl, request, usage) ==
  LET r == StreamResolve(cl, request.model_id) IN
  IF r \in {"UnknownModel", "NotConfigured"}
    THEN Invocation("_stream_model", request, "", NoPayload, <<>>, Raises(r))
  ELSE IF r = "openai_compatible"
    THEN Invocation("_stream_model", request, "_stream_openai_compatible",
                    Payload(request.model_id, request.messages, None, TRUE),
                    <<>>, NoOutcome)
  ELSE IF r = "anthropic"
    THEN LET f == AnthropicFormat(request.messages)
         IN Invocation("_stream_model", request, "_stream_anthropic",
                       Payload(request.model_id, f.messages, f.system, TRUE),
                       <<>>, NoOutcome)
  ELSE [_call_model(cl, request, usage) EXCEPT !.op = "_stream_model"]

AdapterInit ==
  /\ \E s \in AdapterSettingsChoices :
       /\ startup = Started(s)
       /\ clients = _initialize_clients(s)
  /\ config = [set |-> FALSE, fallback_models |-> <<>>]
  /\ usage_stats = <<>>
  /\ task = [t \in Tasks |-> IdleTask]
  /\ calls = 0
  /\ hist = [m \in AllIds |-> <<>>]
  /\ failedFallbacks = [m \in AllIds |-> 0]
  /\ rescued = [m \in AllIds |-> 0]
  /\ raisedCalls = [m \in AllIds |-> 0]
  /\ snapshot = NoSnapshot
  /\ stream = IdleStream
  /\ registry = NoQueries
  /\ invocation = NoInvocation
  /\ ws = NoConnection

adapterOthers ==
  <<clients, config, usage_stats, calls, snapshot, stream, registry, startup,
    ws>>

\* response = await service._call_model(request), on a service that has run
\* neither coroutine before.
CallModel(request, usage) ==
  /\ invocation.op = "none"
  /\ invocation' = _call_model(clients, request, usage)
  /\ UNCHANGED adapterOthers
  /\ UNCHANGED generateVars

\* The first item of service._stream_model(request) is asked for.
StreamModel(request, usage) ==
  /\ invocation.op = "none"
  /\ invocation' = _stream_model(clients, request, usage)
  /\ UNCHANGED adapterOthers
  /\ UNCHANGED generateVars

AdapterNext ==
  \E m \in InvokedIds, msgs \in SeqsUpTo(MessageChoices, MaxMessages),
     usage \in ReplyUsageChoices :
    LET request == [model_id |-> m, provider |-> "openai", messages |-> msgs]
    IN \/ CallModel(request, usage)
       \/ StreamModel(request, usage)

AdapterSpec == AdapterInit /\ [][AdapterNext]_vars

\* ============================================================== WebSocket
\* The messages a client sends on one connection at most.
MaxSends == 2

\* The messages clients send: the ping and the chat message of
\* test_websocket, a chat message asking for a streamed answer, and a message
\* of a type the endpoint does not know.
ClientMessages ==
  { ClientMessage("ping", "test_ping", FALSE),
    ClientMessage("chat", "test_chat", FALSE),
    ClientMessage("chat", "stream_chat", TRUE),
    ClientMessage("status", "test_status", FALSE) }

Sent(m) == [dir |-> "send", msg |-> m]
Received(m) == [dir |-> "recv", msg |-> m]

\* manager.send_personal_message(m, connection_id): websocket.send_text puts
\* m behind what the client has not read yet.
SendPersonalMessage(w, m) == [w EXCEPT !.outbox = Append(@, m)]

wsOthers ==
  <<clients, config, usage_stats, calls, snapshot, stream, registry, startup,
    invocation>>

\* websocket_endpoint up to its first receive_text: the connection is
\* accepted and the welcome message is sent.
Connect ==
  /\ ws.pc = "none"
  /\ ws' = [SendPersonalMessage(ws, ServerMessage("connection", "", FALSE))
              EXCEPT !.pc = "receiving"]
  /\ UNCHANGED wsOthers
  /\ UNCHANGED generateVars

\* await websocket.send(json.dumps(m)) of the client.
ClientSend(m) ==
  /\ ws.pc # "none"
  /\ Cardinality({i \in 1..Len(ws.log) : ws.log[i].dir = "send"}) < MaxSends
  /\ ws' = [ws EXCEPT !.inbox = Append(@, m), !.log = Append(@, Sent(m))]
  /\ UNCHANGED wsOthers
  /\ UNCHANGED generateVars

\* await websocket.recv() of the client returns the oldest message it has
\* not read.
ClientRecv ==
  /\ ws.outbox # <<>>
  /\ ws' = [ws EXCEPT !.outbox = Tail(@),
                      !.log = Append(@, Received(Head(ws.outbox)))]
  /\ UNCHANGED wsOthers
  /\ UNCHANGED generateVars

\* receive_text returns and handle_websocket_message runs to its end or,
\* for a chat message, to the await of the chat service: after the
\* chat_status acknowledgment.
ServerReceive ==
  /\ ws.pc = "receiving"
  /\ ws.inbox # <<>>
  /\ LET m == Head(ws.inbox)
         w == [ws EXCEPT !.inbox = Tail(@)]
     IN ws' =
          IF m.type = "ping"
            THEN SendPersonalMessage(w, ServerMessage("pong", m.id, FALSE))
          ELSE IF m.type = "chat"
            THEN [SendPersonalMessage(w,
                    ServerMessage("chat_status", m.id, FALSE))
                    EXCEPT !.pc = IF m.stream THEN "streaming"
                                  ELSE "processing",
                           !.current = m]
          ELSE SendPersonalMessage(w, ServerMessage("error", m.id, FALSE))
  /\ UNCHANGED wsOthers
  /\ UNCHANGED generateVars

\* chat_service.process_chat_message returns: chat_response is sent.
ChatReturns ==
  /\ ws.pc = "processing"
  /\ ws' = [SendPersonalMessage(ws,
              ServerMessage("chat_response", ws.current.id, FALSE))
              EXCEPT !.pc = "receiving", !.current = NoMessage]
  /\ UNCHANGED wsOthers
  /\ UNCHANGED generateVars

\* chat_service.process_chat_message raises: chat_error is sent.
ChatRaises ==
  /\ ws.pc = "processing"
  /\ ws' = [SendPersonalMessage(ws,
              ServerMessage("chat_error", ws.current.id, FALSE))
              EXCEPT !.pc = "receiving", !.current = NoMessage]
  /\ UNCHANGED wsOthers
  /\ UNCHANGED generateVars

\* stream_chat_message yields a chunk with is_complete=False.
ChatChunk ==
  /\ ws.pc = "streaming"
  /\ ws.chunks < MaxChunks
  /\ ws' = [SendPersonalMessage(ws,
              ServerMessage("chat_stream", ws.current.id, FALSE))
              EXCEPT !.chunks = @ + 1]
  /\ UNCHANGED wsOthers
  /\ UNCHANGED generateVars

\* stream_chat_message yields its last item, is_complete=True (the
\* completion signal, or the error chunk of its except clause), and ends.
ChatStreamEnds ==
  /\ ws.pc = "streaming"
  /\ ws' = [SendPersonalMessage(ws,
              ServerMessage("chat_stream", ws.current.id, TRUE))
              EXCEPT !.pc = "receiving", !.current = NoMessage, !.chunks = 0]
  /\ UNCHANGED wsOthers
  /\ UNCHANGED generateVars

WsNext ==
  \/ Connect
  \/ \E m \in ClientMessages : ClientSend(m)
  \/ ClientRecv
  \/ ServerReceive
  \/ ChatReturns
  \/ ChatRaises
  \/ ChatChunk
  \/ ChatStreamEnds

WsSpec == Init /\ [][WsNext]_vars

\* ================================================================ startup
\* The fields of the Settings class that hold the credentials of a provider
\* (for the local provider, its base URL).
SettingsFields ==
  << [field |-> "openai_api_key",    provider |-> "openai"],
     [field |-> "anthropic_api_key", provider |-> "anthropic"],
     [field |-> "google_api_key",    provider |-> "google"],
     [field |-> "xai_api_key",       provider |-> "xai"],
     [field |-> "deepseek_api_key",  provider |-> "deepseek"],
     [field |-> "mistral_api_key",   provider |-> "mistral"],
     [field |-> "cohere_api_key",    provider |-> "cohere"],
     [field |-> "ollama_base_url",   provider |-> "ollama"] >>

FieldNames == {SettingsFields[i].field : i \in 1..Len(SettingsFields)}

\* An object of the Settings class: the key fields named in `keys` are set,
\* the others are None, ollama_base_url has its default, and there is no
\* attribute of an upper-case name.
DeclaredSettings(keys) ==
  [n \in AttrNames \cup FieldNames |->
     IF n \in AttrNames THEN "absent"
     ELSE IF n = "ollama_base_url" \/ n \in keys THEN "set"
     ELSE "empty"]

\* The providers whose credentials the settings object s holds, under
\* either name.
Credentials(s) ==
  {SettingsAttrs[i].provider : i \in {j \in 1..Len(SettingsAttrs) :
                                        s[SettingsAttrs[j].attr] = "set"}}
  \cup
  {SettingsFields[i].provider : i \in {j \in 1..Len(SettingsFields) :
                                         /\ SettingsFields[j].field \in DOMAIN s
                                         /\ s[SettingsFields[j].field] = "set"}}

\* The settings objects services are built from: the objects of the
\* Settings class for every choice of four of its keys, and objects that
\* carry the upper-case attributes _initialize_clients reads, with and
\* without the first of them.
StartupSettingsChoices ==
  {DeclaredSettings(keys) :
     keys \in SUBSET {"openai_api_key", "anthropic_api_key",
                      "google_api_key", "cohere_api_key"}}
  \cup
  {SettingsWith(present, missing) :
     present \in SUBSET {"ANTHROPIC_API_KEY", "OLLAMA_BASE_URL",
                         "COHERE_API_KEY"},
     missing \in {{}, {"OPENAI_API_KEY"}}}
  \cup
  {SettingsWith(present \cup {"OPENAI_API_KEY"}, {}) :
     present \in SUBSET {"ANTHROPIC_API_KEY", "OLLAMA_BASE_URL",
                         "COHERE_API_KEY", "MISTRAL_API_KEY", "XAI_API_KEY"}}

\* MultiModelService.__init__ up to the call of _initialize_clients:
\* self.clients = {}, self.usage_stats = {}, self.config = None.
StartupInit ==
  /\ \E s \in StartupSettingsChoices :
       startup = [settings |-> s, constructed |-> FALSE]
  /\ clients = {}
  /\ config = [set |-> FALSE, fallback_models |-> <<>>]
  /\ usage_stats = <<>>
  /\ task = [t \in Tasks |-> IdleTask]
  /\ calls = 0
  /\ hist = [m \in AllIds |-> <<>>]
  /\ failedFallbacks = [m \in AllIds |-> 0]
  /\ rescued = [m \in AllIds |-> 0]
  /\ raisedCalls = [m \in AllIds |-> 0]
  /\ snapshot = NoSnapshot
  /\ stream = IdleStream
  /\ registry = NoQueries
  /\ invocation = NoInvocation
  /\ ws = NoConnection

\* self._initialize_clients(), the last statement of __init__.
InitializeClients ==
  /\ ~startup.constructed
  /\ clients' = _initialize_clients(startup.settings)
  /\ startup' = [startup EXCEPT !.constructed = TRUE]
  /\ UNCHANGED <<config, usage_stats, calls, snapshot, stream, registry,
                 invocation, ws>>
  /\ UNCHANGED generateVars

StartupNext == InitializeClients

StartupSpec == StartupInit /\ [][StartupNext]_vars

\* ================================================================ claims
Done(t) == task[t].pc = "done"
Returned(t) == Done(t) /\ task[t].result.status = "returned"
Raised(t) == Done(t) /\ task[t].result.status = "raised"
PrimaryFailed(t) == Len(task[t].attempts) >= 1 /\ ~task[t].attempts[1].ok

\* The fallback list as the loop walks it for a request naming `primary`.
Candidates(primary) ==
  LET NotPrimary(m) == m # primary
  IN SelectSeq(config.fallback_models, NotPrimary)

\* C1: with fallback enabled, whenever a call whose primary attempt failed
\* returns a response, the attempts after the primary one are the entries of
\* the configured fallback list other than the requested id, in list order,
\* all of them failed except the last, and the response carries the id of
\* that last one: an entry of the fallback list that is not the requested id.
C1_FirstSuccessfulFallbackWins ==
  \A t \in Tasks :
    (Returned(t) /\ task[t].fallback /\ PrimaryFailed(t)) =>
      LET a == task[t].attempts
          k == Len(a) - 1
          cand == Candidates(task[t].request.model_id)
          got == task[t].result.response.model_id
      IN /\ config.set
         /\ k >= 1
         /\ k <= Len(cand)
         /\ \A i \in 1..k : a[i + 1].model_id = cand[i]
         /\ \A i \in 1..(k - 1) : ~a[i + 1].ok
         /\ a[k + 1].ok
         /\ got = cand[k]
         /\ \E j \in 1..Len(config.fallback_models) :
               config.fallback_models[j] = got
         /\ got # task[t].request.model_id

\* C1 witness: a call answered by the second fallback candidate after the
\* primary and the first candidate failed.
C1_Witness ==
  \E t \in Tasks :
    /\ Returned(t) /\ task[t].fallback /\ PrimaryFailed(t)
    /\ Len(task[t].attempts) >= 3
    /\ task[t].result.response.model_id = "claude-3-haiku"

\* C2: a call none of whose attempts succeeded ends by raising the
\* all-models-failed error and carries no response; a call that returns a
\* response returns the one of a dispatched attempt that succeeded.
C2_ExhaustionRaises ==
  \A t \in Tasks :
    Done(t) =>
      LET a == task[t].attempts IN
      /\ (\A i \in 1..Len(a) : ~a[i].ok) =>
            /\ task[t].result.status = "raised"
            /\ task[t].result.error.kind = "AllModelsFailed"
            /\ task[t].result.response = NoResponse
      /\ task[t].result.status = "returned" =>
            /\ a[Len(a)].ok /\ a[Len(a)].dispatched
            /\ task[t].result.response.model_id = a[Len(a)].model_id

\* C2 witness: a call with fallback whose primary and two dispatched
\* fallbacks all failed, and that raised.
C2_Witness ==
  \E t \in Tasks :
    /\ Raised(t) /\ task[t].fallback
    /\ Cardinality({i \in 1..Len(task[t].attempts) :
                      task[t].attempts[i].dispatched}) >= 3

\* C3 (as claimed): when a call raises after the adapter call of a fallback
\* model was its last attempt, the error it carries is the error of that
\* last fallback attempt.
C3_CarriesLastFallbackError ==
  \A t \in Tasks :
    LET a == task[t].attempts IN
    (Raised(t) /\ Len(a) >= 2 /\ a[Len(a)].dispatched) =>
      task[t].result.error.last = a[Len(a)].error

\* C4: a call made with fallback disabled attempts the requested model only,
\* whatever fallback list is configured, and when that attempt fails the call
\* raises carrying the primary's error.
C4_NoFallbackWhenDisabled ==
  \A t \in Tasks :
    (task[t].pc # "idle" /\ ~task[t].fallback) =>
      LET a == task[t].attempts IN
      /\ Len(a) <= 1
      /\ \A i \in 1..Len(a) : a[i].model_id = task[t].request.model_id
      /\ task[t].pc = "awaiting" => task[t].cur = task[t].request.model_id
      /\ (Done(t) /\ PrimaryFailed(t)) =>
            /\ task[t].result.status = "raised"
            /\ task[t].result.error.last = a[1].error

\* C4 witness: a call with fallback disabled has raised while a non-empty
\* fallback list is configured.
C4_Witness ==
  \E t \in Tasks :
    /\ Raised(t) /\ ~task[t].fallback
    /\ config.set /\ Len(config.fallback_models) >= 1

\* C5 (as claimed): every finished call whose primary adapter call failed
\* and that a fallback answered has tallied one error for the requested
\* model (next to the one error of every call that raised), and every success
\* is tallied as one request of the model that answered.
C5_RescuedPrimaryErrorTallied ==
  \A m \in AllIds :
    /\ Stats(usage_stats, m).total_requests = Len(hist[m])
    /\ Stats(usage_stats, m).error_count >= raisedCalls[m] + rescued[m]

\* C6 (as claimed): every failed adapter call to a fallback model in a
\* finished call has incremented the error_count of that fallback model (next
\* to the errors the model collected as the requested model of calls that
\* raised).
C6_FailedFallbackErrorTallied ==
  \A m \in AllIds :
    Stats(usage_stats, m).error_count >= raisedCalls[m] + failedFallbacks[m]

\* The step in which the call of task t ends by raising.
EndsRaising(t) ==
  /\ task'[t].pc = "done"
  /\ task'[t].result.status = "raised"
  /\ \/ task[t].pc = "awaiting"
     \/ /\ calls' = calls + 1
        /\ task[t].pc # "awaiting"
        /\ \A u \in Tasks : u < t => task[u].pc = "awaiting"

\* The step in which the call of task t ends by returning a response.
EndsReturning(t) ==
  /\ task[t].pc = "awaiting"
  /\ task'[t].pc = "done"
  /\ task'[t].result.status = "returned"

\* C7: the step in which a call ends in failure adds exactly 1 to the
\* error_count of the requested model and leaves its total_requests,
\* total_tokens, total_cost and avg_response_time as they were; the steps
\* of a call before its end change no stats at all.
C7_FailureTouchesErrorCountOnly ==
  [][/\ \A t \in Tasks :
          EndsRaising(t) =>
            LET m == task'[t].request.model_id
                old == Stats(usage_stats, m)
                new == Stats(usage_stats', m)
            IN /\ new.error_count = old.error_count + 1
               /\ new.total_requests = old.total_requests
               /\ new.total_tokens = old.total_tokens
               /\ new.total_cost = old.total_cost
               /\ new.avg_response_time = old.avg_response_time
     /\ (\A t \in Tasks : ~EndsRaising(t) /\ ~EndsReturning(t)) =>
          usage_stats' = usage_stats]_vars

\* C7 witness: a call for a model has raised after an earlier call to that
\* model succeeded: the model has one request and one error.
C7_Witness ==
  \E t \in Tasks :
    /\ Raised(t)
    /\ Stats(usage_stats, task[t].request.model_id).error_count = 1
    /\ Stats(usage_stats, task[t].request.model_id).total_requests = 1
    /\ Stats(usage_stats, task[t].request.model_id).total_tokens = 50

\* C8 (as claimed): a call naming an id that is no key of the table makes no
\* attempt beyond the failed resolution of that id: no adapter is dispatched.
C8_UnknownModelNotRetried ==
  \A t \in Tasks :
    (task[t].pc # "idle" /\ task[t].request.model_id \notin TableKeys) =>
      /\ task[t].pc # "awaiting"
      /\ Len(task[t].attempts) <= 1
      /\ \A i \in 1..Len(task[t].attempts) : ~task[t].attempts[i].dispatched

\* All successes of the history h reported the same tokens and elapsed time.
Uniform(h) == \A i \in 1..Len(h) : h[i] = h[1]

\* C9: a model whose N successful calls each reported T total tokens and
\* took elapsed time E has total_requests = N, total_tokens = N * T and
\* avg_response_time = E.
C9_UniformCallsAccounting ==
  \A m \in AllIds :
    (Len(hist[m]) >= 1 /\ Uniform(hist[m])) =>
      LET s == Stats(usage_stats, m)
          N == Len(hist[m])
          T == hist[m][1][1]
          E == hist[m][1][2]
      IN /\ s.total_requests = N
         /\ s.total_tokens = N * T
         /\ s.avg_response_time = <<E, 1>>

\* C9 witness: two successes of one model, each reporting 50 tokens and
\* taking one unit of time.
C9_Witness ==
  \E m \in AllIds :
    /\ Len(hist[m]) >= 2 /\ Uniform(hist[m])
    /\ hist[m][1] = <<50, 1>>

RECURSIVE SumTokens(_)
SumTokens(h) == IF h = <<>> THEN 0 ELSE h[1][1] + SumTokens(Tail(h))

\* C10: the total_cost of a model is the sum, over its successful calls, of
\* (total_tokens / 1000) * cost_per_1k_tokens of that model (in units of
\* 0.00000001 USD: total_tokens * cost_per_1k_tokens), and 0 for an id that
\* has no cost.
C10_TotalCostIsSumOfDeltas ==
  \A m \in AllIds :
    Stats(usage_stats, m).total_cost =
      IF m \in TableKeys
        THEN SumTokens(hist[m]) * ModelInfo(m).cost_per_1k_tokens
        ELSE 0

\* C10 witness: a fallback model answered two calls with different token
\* totals, one of them non-zero, and has accumulated cost.
C10_Witness ==
  \E m \in TableKeys :
    /\ Len(hist[m]) >= 2
    /\ hist[m][1][1] # hist[m][2][1]
    /\ rescued["gpt-4"] >= 1
    /\ m # "gpt-4"
    /\ Stats(usage_stats, m).total_cost > 0

\* C11 (as claimed): once get_usage_stats has returned a dictionary, no
\* step of its holder (removing a key, assigning a field of an entry)
\* changes the tracker's statistics, and no later tracker update changes
\* what the dictionary shows.
C11_SnapshotIsIsolated ==
  [][snapshot.taken =>
       /\ calls' = calls => usage_stats' = usage_stats
       /\ calls' # calls =>
            Deref(usage_stats', snapshot'.table) =
              Deref(usage_stats, snapshot.table)]_vars

\* C12: whatever the interleaving of the concurrent generate_response
\* tasks, no tracker update is lost: for every model, total_requests is the
\* number of calls it answered, total_tokens the sum of the totals those
\* replies reported, and error_count the number of calls requesting it that
\* ended by raising.
C12_NoLostUpdate ==
  \A m \in AllIds :
    LET s == Stats(usage_stats, m) IN
    /\ s.total_requests = Len(hist[m])
    /\ s.total_tokens = SumTokens(hist[m])
    /\ s.error_count = raisedCalls[m]

\* C12 witness: two calls for gpt-4 that were in flight at the same time
\* (the second task starts only while the first one is awaiting) have both
\* been answered by gpt-4, one reporting 0 and one 50 tokens.
C12_Witness ==
  /\ calls = 2
  /\ \A t \in Tasks :
        /\ Returned(t)
        /\ task[t].request.model_id = "gpt-4"
        /\ task[t].result.response.model_id = "gpt-4"
  /\ hist["gpt-4"][1][1] = 0
  /\ hist["gpt-4"][2][1] = 50
  /\ Stats(usage_stats, "gpt-4").total_requests = 2

IsPrefix(a, b) == Len(a) <= Len(b) /\ SubSeq(b, 1, Len(a)) = a

ErrorPositions(f) == {i \in 1..Len(f) : f[i].kind = "error"}

\* C13: in every step of a streaming call the fragments already yielded
\* stay as they are; a stream in which an exception was raised (before any
\* upstream call or between two chunks) holds exactly one error fragment and
\* it is the last fragment, a stream without failure holds none; the only
\* model an upstream call is ever made to is the requested one, and no
\* generate_response call (the only place fallback happens) is started.
C13_FailureYieldsOneLastErrorFragment ==
  [][LET f == stream'.fragments IN
     /\ IsPrefix(stream.fragments, f)
     /\ ErrorPositions(f) = IF stream'.failed THEN {Len(f)} ELSE {}
     /\ Len(stream'.dispatched) <= 1
     /\ \A i \in 1..Len(stream'.dispatched) :
          stream'.dispatched[i] = stream'.model_id
     /\ UNCHANGED <<task, calls>>]_vars

\* C13 witness: a stream that failed after two text fragments was read to
\* its end: text, text, error.
C13_Witness ==
  /\ stream.pc = "finished"
  /\ stream.failed
  /\ Len(stream.fragments) = 3
  /\ stream.fragments[1].kind = "text"
  /\ stream.fragments[2].kind = "text"
  /\ stream.fragments[3] = ErrorFragment

MarkerPositions(o) == {i \in 1..Len(o) : o[i].event = "[DONE]"}

\* C14: the end-of-stream marker is never followed by anything and never
\* yielded twice, and a streaming call read to its end has yielded every
\* fragment of stream_response (the error fragment included), in order, and
\* then the marker.
C14_StreamEndsWithOneMarker ==
  /\ MarkerPositions(stream.sse) \subseteq {Len(stream.sse)}
  /\ stream.pc = "finished" =>
       /\ MarkerPositions(stream.sse) = {Len(stream.sse)}
       /\ Len(stream.sse) = Len(stream.fragments) + 1
       /\ \A i \in 1..Len(stream.fragments) :
            stream.sse[i] = Data(stream.fragments[i])

\* C14 witness: a stream that yielded one text fragment and then failed was
\* read to its end: the marker follows the error fragment.
C14_Witness ==
  /\ stream.pc = "finished"
  /\ Len(stream.sse) = 3
  /\ stream.sse[1].fragment.kind = "text"
  /\ stream.sse[2] = Data(ErrorFragment)
  /\ stream.sse[3] = DoneMarker

\* C15 (as claimed): the step in which the consumer stops reading yields no
\* further fragment, reads no further chunk and leaves no upstream response
\* open.
C15_StoppedStreamReleasesUpstream ==
  [][stream'.pc = "closed" =>
       /\ stream'.fragments = stream.fragments
       /\ stream'.sse = stream.sse
       /\ stream'.chunks = stream.chunks
       /\ stream'.connection # "open"]_vars

\* C16 (as claimed): every adapter call is bounded, so a generate_response
\* call that is awaiting an upstream eventually ends (it returns, or raises
\* once the timed-out attempts are exhausted), also when the upstream never
\* replies.
C16_CallEndsWithoutReply ==
  \A t \in Tasks : (task[t].pc = "awaiting") ~> (task[t].pc = "done")

\* C17 (as claimed): get_model_info asked for the id of a descriptor of the
\* table returns a descriptor whose id is the id asked for, and asked for
\* anything that is not the id of a descriptor of the table returns None.
C17_LookupByIdReturnsThatModel ==
  registry.last.op = "get_model_info" =>
    LET q == registry.last.args[1]
        r == registry.last.result
    IN IF q \in TableIds
         THEN Len(r) = 1 /\ r[1].id = q
         ELSE Len(r) = 0

\* Row i of the table comes before row j in the stable ascending order of
\* the costs cost[i], cost[j].
Precedes(cost, i, j) == cost[i] < cost[j] \/ (cost[i] = cost[j] /\ i < j)

C19_AvailableModelsStable ==
  \A k \in 1..Len(registry.available) :
    LET r == registry.available[k].result
        T == AVAILABLE_MODELS
        Configured == {i \in 1..Len(T) : T[i].provider \in clients}
    IN /\ Len(r) = Cardinality(Configured)
       /\ \A i \in 1..Len(r) : TableIndex(r[i]) \in Configured
       /\ \A i, j \in 1..Len(r) :
            i < j => TableIndex(r[i]) < TableIndex(r[j])
       /\ r = registry.available[1].result

\* C19 witness: get_available_models returned seven models before any call
\* ended and again after two calls ended and the statistics were read.
C19_Witness ==
  /\ Len(registry.available) = 2
  /\ registry.available[1].after = 0
  /\ registry.available[2].after = 2
  /\ snapshot.taken
  /\ usage_stats # <<>>
  /\ Len(registry.available[2].result) = 7

\* C20: get_model_recommendations(task_type, context_length) returns the
\* ids of min(5, number of suitable models) models, each available, with a
\* context window of at least context_length and capabilities matching the
\* task (chat: "chat"; code: "code_completion" or "code_analysis"; analysis:
\* "code_analysis"; any other task: none), in ascending order of cost (null
\* as 0) with equal costs in table order, and every suitable model it leaves
\* out comes after all returned ones in that order: the list is determined
\* by the table, the client set and the arguments.
C20_RecommendationsAreCheapestSuitable ==
  registry.last.op = "get_model_recommendations" =>
    LET task_type == registry.last.args[1]
        context_length == registry.last.args[2]
        r == registry.last.result
        T == AVAILABLE_MODELS
        Matches(row) ==
          \/ task_type = "chat" /\ Has(row, "chat")
          \/ task_type = "code"
               /\ (Has(row, "code_completion") \/ Has(row, "code_analysis"))
          \/ task_type = "analysis" /\ Has(row, "code_analysis")
        Eligible == {i \in 1..Len(T) :
                       /\ T[i].provider \in clients
                       /\ T[i].context_length >= context_length
                       /\ Matches(T[i])}
        Idx(k) == CHOOSE i \in 1..Len(T) : T[i].id = r[k]
        Chosen == {Idx(k) : k \in 1..Len(r)}
        cost == [i \in 1..Len(T) |->
                   IF T[i].cost_per_1k_tokens = NoCost
                     THEN 0 ELSE T[i].cost_per_1k_tokens]
    IN /\ \A k \in 1..Len(r) : r[k] \in TableIds
       /\ Len(r) <= 5
       /\ Len(r) = Min(5, Cardinality(Eligible))
       /\ Chosen \subseteq Eligible
       /\ \A j, k \in 1..Len(r) : j < k => Precedes(cost, Idx(j), Idx(k))
       /\ \A c \in Chosen, e \in Eligible \ Chosen : Precedes(cost, c, e)

\* C20 witness: with every provider configured, the chat models for the
\* default context length were asked for: five ids, the free local model
\* first.
C20_Witness ==
  /\ registry.last.op = "get_model_recommendations"
  /\ registry.last.args = <<"chat", 4000>>
  /\ Len(registry.last.result) = 5
  /\ registry.last.result[1] = "llama2"
  /\ registry.last.result[2] = "claude-3-haiku-20240307"

\* C21: in the step in which a call returns a response, the response names
\* the model of the request that was dispatched (the caller's or the one the
\* fallback loop built), its provider is the provider of that model's row
\* of the table, and the adapter that was awaited is the adapter of that
\* provider, whatever the provider field of the caller's request says.
C21_ProviderDerivedFromRegistry ==
  [][\A t \in Tasks :
       EndsReturning(t) =>
         LET response == task'[t].result.response
             provider == ModelInfo(response.model_id).provider
         IN /\ response.model_id = task[t].cur
            /\ response.provider = provider
            /\ task[t].adapter =
                 CASE provider = "openai" -> "_call_openai"
                   [] provider = "anthropic" -> "_call_anthropic"
                   [] provider = "google" -> "_call_google"
                   [] provider \in {"xai", "deepseek", "ollama", "mistral"} ->
                        "_call_openai_compatible"
                   [] OTHER -> "none"]_vars

\* C21 witness: a request naming an Anthropic model with provider "openai"
\* was answered by that model, and the other call was answered by a fallback.
C21_Witness ==
  \E t, u \in Tasks :
    /\ Returned(t)
    /\ task[t].request.provider = "openai"
    /\ task[t].result.response.model_id = task[t].request.model_id
    /\ task[t].result.response.provider = "anthropic"
    /\ Returned(u)
    /\ task[u].result.response.model_id # task[u].request.model_id

\* C22 (as claimed): whenever an adapter was entered and the upstream
\* reply came without usage, _call_model returns a response whose prompt,
\* completion and total token counts are 0; and when the reply reports
\* usage, the response carries the reported counts.
C22_MissingUsageYieldsZeros ==
  (invocation.op = "_call_model" /\ invocation.adapter # "") =>
    LET o == invocation.outcome
        u == invocation.usage
    IN /\ o.status = "returned"
       /\ o.usage = IF u = <<>> THEN NoUsage
                    ELSE Usage(u[1], u[2], u[1] + u[2])

\* Position j of the client's history holds the first message the client
\* received after what it sent at position i.
FirstReceivedAfter(i, j) ==
  /\ i < j /\ j <= Len(ws.log)
  /\ ws.log[j].dir = "recv"
  /\ \A k \in (i + 1)..(j - 1) : ws.log[k].dir = "send"

\* C23 (as claimed): the first message a client receives after it sent a
\* ping is a pong that carries the id of the ping.
C23_PongIsNextAfterPing ==
  \A i, j \in 1..Len(ws.log) :
    (/\ ws.log[i].dir = "send"
     /\ ws.log[i].msg.type = "ping"
     /\ FirstReceivedAfter(i, j)) =>
      /\ ws.log[j].msg.type = "pong"
      /\ ws.log[j].msg.id = ws.log[i].msg.id

\* C24 (as claimed): the first message a client receives after it sent a
\* chat message that does not ask for streaming is the chat_response
\* carrying the id of the chat message.
C24_ChatResponseIsNextAfterChat ==
  \A i, j \in 1..Len(ws.log) :
    (/\ ws.log[i].dir = "send"
     /\ ws.log[i].msg.type = "chat"
     /\ ~ws.log[i].msg.stream
     /\ FirstReceivedAfter(i, j)) =>
      /\ ws.log[j].msg.type = "chat_response"
      /\ ws.log[j].msg.id = ws.log[i].msg.id

\* C25 (as claimed): on a service on which nothing was done after its
\* construction, a call with fallback enabled whose primary adapter call
\* failed goes on to the first entry of the fallback list of the settings
\* that is not the requested model.
C25_FallbackListInEffectFromConstruction ==
  \A t \in Tasks :
    (/\ ~config.set
     /\ task[t].pc # "idle"
     /\ task[t].fallback
     /\ PrimaryFailed(t)
     /\ task[t].attempts[1].dispatched) =>
      LET a == task[t].attempts
          NotPrimary(m) == m # task[t].request.model_id
          cand == SelectSeq(DefaultFallbackModels, NotPrimary)
      IN cand # <<>> =>
           \/ Len(a) >= 2 /\ a[2].model_id = cand[1]
           \/ Len(a) = 1 /\ task[t].pc = "awaiting" /\ task[t].cur = cand[1]

\* The adapter calls a generate_response call has made so far.
Dispatches(tk) ==
  Cardinality({i \in 1..Len(tk.attempts) : tk.attempts[i].dispatched})
    + (IF tk.pc = "awaiting" THEN 1 ELSE 0)

\* C26: a call makes at most 1 + len(fallback list) adapter calls; no
\* attempt after the first one, and no adapter call awaited in the fallback
\* loop, is for the requested model; and every step in which an awaited
\* adapter call returns or fails either ends the call or suspends it in the
\* adapter call of a strictly later position of the fallback list: once
\* every adapter call has ended, the call has ended.
C26_FallbacksDoNotChain ==
  [][\A t \in Tasks :
       LET tk == task'[t] IN
       /\ Dispatches(tk) <= 1 + Len(config'.fallback_models)
       /\ \A i \in 2..Len(tk.attempts) :
            tk.attempts[i].model_id # tk.request.model_id
       /\ (tk.pc = "awaiting" /\ tk.idx > 0) =>
            /\ tk.cur # tk.request.model_id
            /\ tk.idx <= Len(config'.fallback_models)
       /\ (task[t].pc = "awaiting" /\ tk.attempts # task[t].attempts) =>
            \/ tk.pc = "done"
            \/ tk.pc = "awaiting" /\ tk.idx > task[t].idx]_vars

\* C26 witness: a call for the second model of the fallback list has ended
\* by raising after its adapter call and the one of the first fallback
\* failed: the loop passed over the requested model and went on to the third
\* entry, whose provider has no client.
C26_Witness ==
  \E t \in Tasks :
    /\ Raised(t)
    /\ config.fallback_models = DefaultFallbackModels
    /\ task[t].request.model_id = "claude-3-haiku"
    /\ Dispatches(task[t]) = 2
    /\ Len(task[t].attempts) = 3
    /\ task[t].attempts[2].model_id = "gpt-3.5-turbo"
    /\ task[t].attempts[3].model_id = "gemini-pro"

\* C27 (as claimed): once the service is constructed, the providers that
\* have a client are exactly the providers whose credentials (for the local
\* provider, its base URL) the settings hold.
C27_HandlesIffCredentials ==
  startup.constructed => clients = Credentials(startup.settings)

\* C28: generate_response never changes the request object its caller
\* passed: from the entry of a call to its return or raise, through every
\* fallback attempt, the request keeps its model_id, provider and messages.
\* The request a task holds changes only when the task begins its next call.
C28_RequestNeverMutated ==
  [][\A t \in Tasks :
       task'[t].request # task[t].request
         => /\ task[t].pc \in {"idle", "done"}
            /\ calls' = calls + 1]_vars

\* A call for claude-3-haiku, sent with a provider field that disagrees with
\* the table, returned the response of a fallback model after the primary
\* adapter call failed, and the request is still the one the caller passed.
C28_Witness ==
  \E t \in Tasks :
    /\ task[t].pc = "done"
    /\ task[t].result.status = "returned"
    /\ task[t].attempts[1].dispatched
    /\ task[t].result.response.model_id # "claude-3-haiku"
    /\ task[t].request = [model_id |-> "claude-3-haiku", provider |-> "openai",
                          messages |-> Conversation]

\* The messages of msgs whose role is not "system", in their order.
RECURSIVE NonSystem(_)
NonSystem(msgs) ==
  IF msgs = <<>> THEN <<>>
  ELSE IF Head(msgs).role = "system" THEN NonSystem(Tail(msgs))
  ELSE <<Head(msgs)>> \o NonSystem(Tail(msgs))

\* C29 (as claimed): the upstream call of the Anthropic adapter, for call
\* and for stream, carries as its turn list exactly the non-system messages
\* of the request in their order, and its system field carries the content
\* of every system message of the request: none is dropped.
C29_AnthropicKeepsEverySystemMessage ==
  invocation.adapter \in {"_call_anthropic", "_stream_anthropic"}
    => /\ invocation.payload.messages = NonSystem(invocation.request.messages)
       /\ \A i \in 1..Len(invocation.request.messages) :
            invocation.request.messages[i].role = "system"
              => \E j \in 1..Len(invocation.payload.system) :
                   invocation.payload.system[j] =
                     invocation.request.messages[i].content

\* The ids of the models get_available_models returns.
AvailableIds(cl) ==
  {get_available_models(cl)[i].id : i \in 1..Len(get_available_models(cl))}

\* C30 (as claimed): a model that get_available_models returns is
\* dispatchable: asked for it, _call_model of generate_response reaches a
\* provider adapter, and stream_response has made an upstream call for it
\* instead of failing before any.
C30_AvailableModelsAreDispatchable ==
  (stream.pc # "idle" /\ stream.model_id \in AvailableIds(clients))
    => /\ Resolve(clients, stream.model_id) = "dispatch"
       /\ stream.dispatched = <<stream.model_id>>

====
